---- MODULE Spec2Model ----
(***************************************************************************)
(* Model of src/app.js ("log-it-yeet-it"): the IndexedDB entry store, the  *)
(* log form (create), the edit modal (update / delete) and the JSON        *)
(* export / import.                                                        *)
(*                                                                         *)
(* Text is a sequence of one-character strings.  A JavaScript value is a   *)
(* record [k, s, n]: k is the kind, s the text of a string, n the number   *)
(* (or 0/1 for a boolean).  A JSON text is a tree of JSON tokens, so that  *)
(* JSON.stringify and JSON.parse are two conversions, not the identity.    *)
(***************************************************************************)
EXTENDS Integers, Sequences, FiniteSets, TLC

(***************************************************************************)
(* Bounds of the model.                                                    *)
(***************************************************************************)
\* Handler invocations (submit, save, delete, export, import) in one run.
MaxOps == 3

\* The connections opened are counted up to this number.
MaxConnections == 2

(***************************************************************************)
(* Characters and text.                                                    *)
(***************************************************************************)
\* The characters of the model in code-unit (ASCII) order.
Chars ==
  << " ", "0", "1", "2", "3", "4", "5", "6", "7", "8", "9",
     "A", "B", "C", "D", "E", "F", "G", "H", "I", "J", "K", "L", "M",
     "N", "O", "P", "Q", "R", "S", "T", "U", "V", "W", "X", "Y", "Z",
     "[", "]",
     "a", "b", "c", "d", "e", "f", "g", "h", "i", "j", "k", "l", "m",
     "n", "o", "p", "q", "r", "s", "t", "u", "v", "w", "x", "y", "z" >>

\* The place of each character in that order.
CodeTable ==
  [c \in {Chars[i] : i \in 1..Len(Chars)} |->
     CHOOSE i \in 1..Len(Chars) : Chars[i] = c]

Code(c) == CodeTable[c]

Digits == << "0", "1", "2", "3", "4", "5", "6", "7", "8", "9" >>

IsSpace(c) == c = " "

RECURSIVE TrimStart(_)
TrimStart(s) ==
  IF s # << >> /\ IsSpace(Head(s)) THEN TrimStart(Tail(s)) ELSE s

RECURSIVE TrimEnd(_)
TrimEnd(s) ==
  IF s # << >> /\ IsSpace(s[Len(s)])
  THEN TrimEnd(SubSeq(s, 1, Len(s) - 1))
  ELSE s

\* String.prototype.trim
Trim(s) == TrimEnd(TrimStart(s))

\* Code-unit comparison of two texts: -1, 0 or 1.
RECURSIVE CompareText(_, _)
CompareText(s, t) ==
  IF s = << >> /\ t = << >> THEN 0
  ELSE IF s = << >> THEN -1
  ELSE IF t = << >> THEN 1
  ELSE IF Code(Head(s)) < Code(Head(t)) THEN -1
  ELSE IF Code(Head(s)) > Code(Head(t)) THEN 1
  ELSE CompareText(Tail(s), Tail(t))

\* The decimal digits of a natural number.
RECURSIVE NumToText(_)
NumToText(n) ==
  IF n < 10 THEN << Digits[n + 1] >>
  ELSE NumToText(n \div 10) \o << Digits[(n % 10) + 1] >>

(***************************************************************************)
(* JavaScript values.                                                      *)
(***************************************************************************)
Undef == [k |-> "undefined", s |-> << >>, n |-> 0]
Null == [k |-> "null", s |-> << >>, n |-> 0]
Bool(b) == [k |-> "boolean", s |-> << >>, n |-> IF b THEN 1 ELSE 0]
Num(x) == [k |-> "number", s |-> << >>, n |-> x]
\* The number Infinity: what JSON.parse makes of a literal beyond the
\* double range, such as 1e999.
Infinity == [k |-> "infinity", s |-> << >>, n |-> 0]
Str(t) == [k |-> "string", s |-> t, n |-> 0]
\* A plain object {} held as a field value.
Obj == [k |-> "object", s |-> << >>, n |-> 0]

\* typeof v
TypeOf(v) ==
  CASE v.k = "infinity" -> "number"
    [] v.k = "null" -> "object"
    [] OTHER -> v.k

\* ToBoolean(v), the test of !v and of v || w
Truthy(v) ==
  CASE v.k = "undefined" -> FALSE
    [] v.k = "null" -> FALSE
    [] v.k = "boolean" -> v.n = 1
    [] v.k = "number" -> v.n # 0
    [] v.k = "string" -> v.s # << >>
    [] OTHER -> TRUE

\* String(v)
ToText(v) ==
  CASE v.k = "string" -> v.s
    [] v.k = "number" -> NumToText(v.n)
    [] v.k = "infinity" -> << "I", "n", "f", "i", "n", "i", "t", "y" >>
    [] v.k = "boolean" ->
         IF v.n = 1 THEN << "t", "r", "u", "e" >>
         ELSE << "f", "a", "l", "s", "e" >>
    [] v.k = "null" -> << "n", "u", "l", "l" >>
    [] v.k = "undefined" ->
         << "u", "n", "d", "e", "f", "i", "n", "e", "d" >>
    [] OTHER ->
         << "[", "o", "b", "j", "e", "c", "t", " ",
            "O", "b", "j", "e", "c", "t", "]" >>

\* v ?? w
Coalesce(v, w) == IF v.k \in {"undefined", "null"} THEN w ELSE v

(***************************************************************************)
(* Entries.  A stored entry and a parsed payload record have the same      *)
(* eight fields; a field the object does not have is Undef.                *)
(***************************************************************************)
FieldOrder ==
  << "id", "created_at", "updated_at", "item", "location", "inventory",
     "date", "notes" >>

Get(e, f) ==
  CASE f = "id" -> e.id
    [] f = "created_at" -> e.created_at
    [] f = "updated_at" -> e.updated_at
    [] f = "item" -> e.item
    [] f = "location" -> e.location
    [] f = "inventory" -> e.inventory
    [] f = "date" -> e.date
    [] OTHER -> e.notes

(***************************************************************************)
(* JSON text, as tokens.  A value token is [j, s, n]; an object is the     *)
(* sequence of its members [key, val]; an element of the entries array is  *)
(* an object (rec) or a value that is no object; a text is malformed, or   *)
(* a value that has an entries array or has none.                          *)
(***************************************************************************)
JNull == [j |-> "null", s |-> << >>, n |-> 0]
JTrue == [j |-> "true", s |-> << >>, n |-> 0]
JFalse == [j |-> "false", s |-> << >>, n |-> 0]
JNum(x) == [j |-> "number", s |-> << >>, n |-> x]
\* A number literal beyond the double range (1e999).
JOverflow == [j |-> "overflow", s |-> << >>, n |-> 0]
JStr(t) == [j |-> "string", s |-> t, n |-> 0]
\* The object literal {} as a member's value.
JObject == [j |-> "object", s |-> << >>, n |-> 0]

Member(key, val) == [key |-> key, val |-> val]
JRecord(members) == [rec |-> TRUE, members |-> members, val |-> JNull]
JValue(val) == [rec |-> FALSE, members |-> << >>, val |-> val]

Malformed ==
  [wellFormed |-> FALSE, hasEntries |-> FALSE, exported_at |-> << >>,
   entries |-> << >>]
NoEntries ==
  [wellFormed |-> TRUE, hasEntries |-> FALSE, exported_at |-> << >>,
   entries |-> << >>]
Payload(entries) ==
  [wellFormed |-> TRUE, hasEntries |-> TRUE, exported_at |-> << >>,
   entries |-> entries]

\* JSON.parse of one value token.
ParseValue(j) ==
  CASE j.j = "null" -> Null
    [] j.j = "true" -> Bool(TRUE)
    [] j.j = "false" -> Bool(FALSE)
    [] j.j = "number" -> Num(j.n)
    [] j.j = "overflow" -> Infinity
    [] j.j = "string" -> Str(j.s)
    [] OTHER -> Obj

\* The value JSON.parse gives property f of an object: that of the last
\* member of that name, Undef when there is none.
ParseField(members, f) ==
  LET at == {i \in 1..Len(members) : members[i].key = f}
      lastAt == CHOOSE i \in at : \A j \in at : j <= i
  IN IF at = {} THEN Undef ELSE ParseValue(members[lastAt].val)

ParseObject(members) ==
  [id |-> ParseField(members, "id"),
   created_at |-> ParseField(members, "created_at"),
   updated_at |-> ParseField(members, "updated_at"),
   item |-> ParseField(members, "item"),
   location |-> ParseField(members, "location"),
   inventory |-> ParseField(members, "inventory"),
   date |-> ParseField(members, "date"),
   notes |-> ParseField(members, "notes")]

\* JSON.parse of an element of the entries array: isObject is
\* e && typeof e === "object".
ParseElement(el) ==
  IF el.rec
  THEN [isObject |-> TRUE, obj |-> ParseObject(el.members), val |-> Null]
  ELSE [isObject |-> FALSE, obj |-> ParseObject(<< >>),
        val |-> ParseValue(el.val)]

\* JSON.stringify of one value: a number that is not finite becomes null.
StringifyValue(v) ==
  CASE v.k = "null" -> JNull
    [] v.k = "infinity" -> JNull
    [] v.k = "boolean" -> IF v.n = 1 THEN JTrue ELSE JFalse
    [] v.k = "number" -> JNum(v.n)
    [] v.k = "string" -> JStr(v.s)
    [] OTHER -> JObject

\* JSON.stringify of an entry: a property that is undefined is left out.
StringifyObject(e) ==
  LET present == SelectSeq(FieldOrder, LAMBDA f : Get(e, f).k # "undefined")
  IN [i \in 1..Len(present) |->
        Member(present[i], StringifyValue(Get(e, present[i])))]

(***************************************************************************)
(* The object store "entries" (keyPath "id"): a function from key to       *)
(* entry.                                                                  *)
(***************************************************************************)
\* A value IndexedDB takes as a key; store.put and store.add throw a
\* DataError on any other.
ValidKey(v) == v.k \in {"string", "number", "infinity"}

\* IndexedDB's order of keys: numbers before strings, numbers by value,
\* strings by code unit.
KeyLess(a, b) ==
  IF a.k = "string" /\ b.k = "string" THEN CompareText(a.s, b.s) < 0
  ELSE IF a.k = "string" THEN FALSE
  ELSE IF b.k = "string" THEN TRUE
  ELSE a.k = "number" /\ (b.k = "infinity" \/ a.n < b.n)

\* A slip: the request is answered, the record is not written.
StorePutLost(store, e) == store

StorePut(store, e) ==
  [key \in DOMAIN store \cup {e.id} |-> IF key = e.id THEN e ELSE store[key]]

StoreDelete(store, id) == [key \in DOMAIN store \ {id} |-> store[key]]

\* req.result of store.get(id): [found, entry].
StoreGet(store, id) ==
  IF id \in DOMAIN store
  THEN [found |-> TRUE, entry |-> store[id]]
  ELSE [found |-> FALSE, entry |-> ParseObject(<< >>)]

RECURSIVE KeysInOrder(_)
KeysInOrder(keys) ==
  IF keys = {} THEN << >>
  ELSE LET least == CHOOSE a \in keys : \A b \in keys \ {a} : KeyLess(a, b)
       IN << least >> \o KeysInOrder(keys \ {least})

\* req.result of store.getAll(): the entries in key order.
StoreGetAll(store) ==
  LET keys == KeysInOrder(DOMAIN store)
  IN [i \in 1..Len(keys) |-> store[keys[i]]]

\* getEntry(id): req.result || null
getEntry(store, id) == StoreGet(store, id)

\* getAllEntries(): req.result || []
getAllEntries(store) == StoreGetAll(store)

(***************************************************************************)
(* uuid() and nowISO().  The clock's text has a fixed width, as an         *)
(* ISO-8601 UTC timestamp has: its order as text is its order in time.     *)
(***************************************************************************)
uuid(counter) == Str(<< "u" >> \o NumToText(counter))

nowISO(clock) ==
  Str(<< Digits[((clock \div 10) % 10) + 1], Digits[(clock % 10) + 1] >>)

(***************************************************************************)
(* exportJSON                                                              *)
(***************************************************************************)
\* v || w
Or(v, w) == IF Truthy(v) THEN v ELSE w

\* (b.created_at || "").localeCompare(a.created_at || ""): the receiver
\* must be a string (a TypeError otherwise), the argument is converted
\* with String().  On timestamps of one width the locale's order is the
\* code-unit order.
CompareThrows(b) == Or(b.created_at, Str(<< >>)).k # "string"

Comparator(a, b) ==
  CompareText(Or(b.created_at, Str(<< >>)).s,
              ToText(Or(a.created_at, Str(<< >>))))

\* Array.prototype.sort is stable: e goes before the first element the
\* comparator puts after it.
RECURSIVE InsertSorted(_, _)
InsertSorted(sorted, e) ==
  IF sorted = << >> THEN << e >>
  ELSE IF Comparator(Head(sorted), e) > 0 THEN << e >> \o sorted
  ELSE << Head(sorted) >> \o InsertSorted(Tail(sorted), e)

RECURSIVE SortNewestFirst(_)
SortNewestFirst(entries) ==
  IF entries = << >> THEN << >>
  ELSE InsertSorted(SortNewestFirst(SubSeq(entries, 1, Len(entries) - 1)),
                    entries[Len(entries)])

\* The sort calls the comparator only on two or more entries; it throws
\* if an entry with a created_at that is no string is passed as b.  Which
\* entries are passed as b is the engine's choice: SortNewestFirst passes
\* each entry but the first, another order of calls may pass any.
SortThrows(entries) ==
  /\ Len(entries) >= 2
  /\ \E i \in 2..Len(entries) : CompareThrows(entries[i])

SortMayThrow(entries) ==
  /\ Len(entries) >= 2
  /\ \E i \in 1..Len(entries) : CompareThrows(entries[i])

\* JSON.stringify({ exported_at: nowISO(), entries }, null, 2)
exportJSON(store, clock) ==
  LET entries == SortNewestFirst(getAllEntries(store))
  IN [wellFormed |-> TRUE, hasEntries |-> TRUE,
      exported_at |-> nowISO(clock).s,
      entries |-> [i \in 1..Len(entries) |->
                     JRecord(StringifyObject(entries[i]))]]

(***************************************************************************)
(* Search: renderSearch() filters the entries, newest first, by the value  *)
(* of #q.                                                                  *)
(***************************************************************************)
\* toLowerCase of one character and of a text.
LowerChar(c) ==
  IF Code(c) >= Code("A") /\ Code(c) <= Code("Z")
  THEN Chars[Code(c) + (Code("a") - Code("A"))]
  ELSE c

ToLower(s) == [i \in 1..Len(s) |-> LowerChar(s[i])]

\* Whether text s begins with text t.
StartsWith(s, t) == Len(t) <= Len(s) /\ SubSeq(s, 1, Len(t)) = t

\* hay.includes(q)
RECURSIVE Includes(_, _)
Includes(hay, q) ==
  IF StartsWith(hay, q) THEN TRUE
  ELSE IF hay = << >> THEN FALSE
  ELSE Includes(Tail(hay), q)

\* `${e.item || ""} ${e.location || ""} ${e.notes || ""}`.toLowerCase()
Hay(e) ==
  ToLower(ToText(Or(e.item, Str(<< >>))) \o << " " >>
          \o ToText(Or(e.location, Str(<< >>))) \o << " " >>
          \o ToText(Or(e.notes, Str(<< >>))))

\* A slip: inventory and date are searched too.
matchesQueryAllFields(e, q) ==
  IF q = << >> THEN TRUE
  ELSE Includes(Hay(e) \o << " " >>
                  \o ToLower(ToText(Or(e.inventory, Str(<< >>))))
                  \o << " " >> \o ToLower(ToText(Or(e.date, Str(<< >>)))),
                q)

matchesQuery(e, q) == IF q = << >> THEN TRUE ELSE Includes(Hay(e), q)

\* (qEl?.value || "").trim().toLowerCase()
QueryOf(value) == ToLower(Trim(value))

\* searchCache.filter((e) => matchesQuery(e, q))
Filtered(cache, value) ==
  SelectSeq(cache, LAMBDA e : matchesQuery(e, QueryOf(value)))

\* renderSearch() when its sort does not throw: the cards it puts in
\* #searchList, each by the id of its entry.  searchCache is assigned and
\* read within the one call.
renderSearch(store, value) ==
  LET searchCache == SortNewestFirst(getAllEntries(store))
      filtered == Filtered(searchCache, value)
  IN [i \in 1..Len(filtered) |-> filtered[i].id]

(***************************************************************************)
(* importJSON: the normalization of one record of the payload.             *)
(***************************************************************************)
\* A slip: a value that is no text becomes the empty text.
CoerceTextBlank(v) == IF TypeOf(v) # "string" THEN Str(<< >>) ELSE v

\* if (typeof e.f !== "string") e.f = String(e.f ?? "")
CoerceText(v) ==
  IF TypeOf(v) # "string" THEN Str(ToText(Coalesce(v, Str(<< >>)))) ELSE v

\* Whether the record gets a generated id: if (!e.id) e.id = uuid()
NeedsId(e) == ~Truthy(e.id)

\* A slip: a missing updated_at is left missing.
NormalizeNoUpdatedAt(e, counter, clock) ==
  [id |-> IF NeedsId(e) THEN uuid(counter) ELSE e.id,
   created_at |-> IF ~Truthy(e.created_at) THEN nowISO(clock)
                  ELSE e.created_at,
   updated_at |-> e.updated_at,
   item |-> CoerceText(e.item),
   location |-> CoerceText(e.location),
   inventory |-> CoerceText(e.inventory),
   date |-> CoerceText(e.date),
   notes |-> CoerceText(e.notes)]

\* A slip: created_at is set to the time of the import whatever the
\* record gives.
NormalizeRestamped(e, counter, clock) ==
  [id |-> IF NeedsId(e) THEN uuid(counter) ELSE e.id,
   created_at |-> nowISO(clock),
   updated_at |-> IF e.updated_at.k = "undefined" THEN Null
                  ELSE e.updated_at,
   item |-> CoerceText(e.item),
   location |-> CoerceText(e.location),
   inventory |-> CoerceText(e.inventory),
   date |-> CoerceText(e.date),
   notes |-> CoerceText(e.notes)]

Normalize(e, counter, clock) ==
  [id |-> IF NeedsId(e) THEN uuid(counter) ELSE e.id,
   created_at |-> IF ~Truthy(e.created_at) THEN nowISO(clock)
                  ELSE e.created_at,
   updated_at |-> IF e.updated_at.k = "undefined" THEN Null
                  ELSE e.updated_at,
   item |-> CoerceText(e.item),
   location |-> CoerceText(e.location),
   inventory |-> CoerceText(e.inventory),
   date |-> CoerceText(e.date),
   notes |-> CoerceText(e.notes)]

(***************************************************************************)
(* openDB(): every call opens a connection of its own with                 *)
(* indexedDB.open; none is kept for a later call and none is closed.  The  *)
(* operator gives the number of connections opened after one more call.    *)
(***************************************************************************)
openDB(count) == IF count < MaxConnections THEN count + 1 ELSE count

(***************************************************************************)
(* Repository operations: each is one transaction, which commits whole or  *)
(* not at all.  The result is [ok, store].                                 *)
(***************************************************************************)
\* store.add(entry): fails on a key that is taken.
addEntry(store, e) ==
  IF ValidKey(e.id) /\ e.id \notin DOMAIN store
  THEN [ok |-> TRUE, store |-> StorePut(store, e)]
  ELSE [ok |-> FALSE, store |-> store]

\* A slip: put as add, which fails on a key that is taken.
putEntryIfAbsent(store, e) == addEntry(store, e)

\* store.put(entry): insert or replace.
putEntry(store, e) ==
  IF ValidKey(e.id)
  THEN [ok |-> TRUE, store |-> StorePut(store, e)]
  ELSE [ok |-> FALSE, store |-> store]

\* A slip: the delete of an id that is not stored is an error.
deleteEntryStrict(store, id) ==
  IF ValidKey(id) /\ id \in DOMAIN store
  THEN [ok |-> TRUE, store |-> StoreDelete(store, id)]
  ELSE [ok |-> FALSE, store |-> store]

\* store.delete(id)
deleteEntry(store, id) ==
  IF ValidKey(id)
  THEN [ok |-> TRUE, store |-> StoreDelete(store, id)]
  ELSE [ok |-> FALSE, store |-> store]

(***************************************************************************)
(* The forms.  A form is the text of its five inputs.                      *)
(***************************************************************************)
Form(item, location, inventory, date, notes) ==
  [item |-> item, location |-> location, inventory |-> inventory,
   date |-> date, notes |-> notes]

EmptyForm == Form(<< >>, << >>, << >>, << >>, << >>)

\* What the user may have typed when a form is submitted.
Forms ==
  { EmptyForm,
    Form(<< " ", " ", " " >>, << "g" >>, << >>, << >>, << >>),
    Form(<< "a" >>, << >>, << >>, << >>, << >>),
    Form(<< " ", "b", " " >>, << " ", "g", " " >>, << "3", " " >>,
         << " ", "1" >>, << " ", "a", " ", "b", " " >>) }

\* A slip: the item is tested as typed, not trimmed.
ItemMissingUntrimmed(f) == f.item = << >>

\* A slip: the item is not tested.
ItemMissingNever(f) == FALSE

\* if (!item): the trimmed item is the empty string.
ItemMissing(f) == Trim(f.item) = << >>

\* A slip: item is trimmed, the other inputs are stored as typed.
NewEntryUntrimmed(f, counter, clock) ==
  [id |-> uuid(counter),
   created_at |-> nowISO(clock),
   updated_at |-> Null,
   item |-> Str(Trim(f.item)),
   location |-> Str(f.location),
   inventory |-> Str(f.inventory),
   date |-> Str(f.date),
   notes |-> Str(f.notes)]

\* The entry the log form's submit handler builds.
NewEntry(f, counter, clock) ==
  [id |-> uuid(counter),
   created_at |-> nowISO(clock),
   updated_at |-> Null,
   item |-> Str(Trim(f.item)),
   location |-> Str(Trim(f.location)),
   inventory |-> Str(Trim(f.inventory)),
   date |-> Str(Trim(f.date)),
   notes |-> Str(Trim(f.notes))]

\* A slip: updated_at is not set.
UpdatedEntryStale(existing, item, f, clock) ==
  [id |-> existing.id,
   created_at |-> existing.created_at,
   updated_at |-> existing.updated_at,
   item |-> Str(item),
   location |-> Str(Trim(f.location)),
   inventory |-> Str(Trim(f.inventory)),
   date |-> Str(Trim(f.date)),
   notes |-> Str(Trim(f.notes))]

\* A slip: the entry is built anew, with a created_at of its own.
UpdatedEntryRestamped(existing, item, f, clock) ==
  [id |-> existing.id,
   created_at |-> nowISO(clock),
   updated_at |-> nowISO(clock),
   item |-> Str(item),
   location |-> Str(Trim(f.location)),
   inventory |-> Str(Trim(f.inventory)),
   date |-> Str(Trim(f.date)),
   notes |-> Str(Trim(f.notes))]

\* The entry saveEdit builds: { ...existing, item, location, inventory,
\* date, notes, updated_at: nowISO() }
UpdatedEntry(existing, item, f, clock) ==
  [id |-> existing.id,
   created_at |-> existing.created_at,
   updated_at |-> nowISO(clock),
   item |-> Str(item),
   location |-> Str(Trim(f.location)),
   inventory |-> Str(Trim(f.inventory)),
   date |-> Str(Trim(f.date)),
   notes |-> Str(Trim(f.notes))]

\* The inputs of the edit modal as openEdit fills them: an input's value
\* is text.
EditFormOf(e) ==
  Form(ToText(Or(e.item, Str(<< >>))), ToText(Or(e.location, Str(<< >>))),
       ToText(Or(e.inventory, Str(<< >>))), ToText(Or(e.date, Str(<< >>))),
       ToText(Or(e.notes, Str(<< >>))))

(***************************************************************************)
(* The payloads a user may import, beside a file the app exported.         *)
(***************************************************************************)
\* { "entries": [{}] }
PayloadEmptyRecord == Payload(<< JRecord(<< >>) >>)

\* Two records among elements that are no records; the second record has
\* a falsy id and created_at and an updated_at that is present.
PayloadMixed ==
  Payload(<< JValue(JNull),
             JRecord(<< Member("id", JStr(<< "a" >>)),
                        Member("item", JStr(<< "x" >>)) >>),
             JValue(JNum(5)),
             JRecord(<< Member("id", JStr(<< >>)),
                        Member("created_at", JNum(0)),
                        Member("updated_at", JStr(<< "0", "1" >>)),
                        Member("item", JStr(<< "a" >>)) >>),
             JValue(JStr(<< "s" >>)), JValue(JTrue) >>)

\* Text fields that hold no text; a created_at later than the clock; an
\* updated_at beyond the double range.
PayloadUntyped ==
  Payload(<< JRecord(<< Member("id", JStr(<< "a" >>)),
                        Member("created_at", JStr(<< "9", "9" >>)),
                        Member("updated_at", JOverflow),
                        Member("item", JNum(7)),
                        Member("location", JTrue),
                        Member("inventory", JNull),
                        Member("date", JObject),
                        Member("notes", JStr(<< " ", "n" >>)) >>) >>)

\* A numeric id, and a last record whose id is no valid key.
PayloadBadKey ==
  Payload(<< JRecord(<< Member("id", JStr(<< "b" >>)),
                        Member("item", JStr(<< "y" >>)) >>),
             JRecord(<< Member("id", JNum(7)),
                        Member("created_at", JStr(<< "0", "0" >>)),
                        Member("item", JStr(<< "k" >>)) >>),
             JRecord(<< Member("id", JTrue),
                        Member("item", JStr(<< "z" >>)) >>) >>)

\* Two records of one id, the same as an id of PayloadMixed and of
\* PayloadUntyped, and a created_at that is a number in every record.
PayloadDuplicate ==
  Payload(<< JRecord(<< Member("id", JStr(<< "a" >>)),
                        Member("created_at", JNum(5)),
                        Member("item", JStr(<< "p" >>)),
                        Member("notes", JStr(<< "n" >>)) >>),
             JRecord(<< Member("id", JStr(<< "e" >>)),
                        Member("created_at", JNum(6)),
                        Member("item", JStr(<< "q" >>)) >>),
             JRecord(<< Member("id", JStr(<< "a" >>)),
                        Member("created_at", JNum(5)),
                        Member("item", JStr(<< "r" >>)) >>) >>)

Payloads ==
  { Malformed, NoEntries, PayloadEmptyRecord, PayloadMixed, PayloadUntyped,
    PayloadBadKey, PayloadDuplicate }

\* JSON.parse(jsonText) throws.
ParseFails(doc) == ~doc.wellFormed

\* A slip: a text without an entries array is taken as an empty array.
EntriesMissingNever(doc) == FALSE

\* Array.isArray(parsed?.entries) ? parsed.entries : null, then !entries
EntriesMissing(doc) == ~doc.hasEntries

\* return entries.length
importCount(entries) == Len(entries)

(***************************************************************************)
(* State.                                                                  *)
(***************************************************************************)
VARIABLES
  db,          \* the object store: key -> entry
  now,         \* the clock
  nextId,      \* the number of the next uuid()
  modalOpen,   \* the edit dialog is shown (the page behind it is inert)
  eId,         \* the value of #eId
  editForm,    \* the values of #eItem, #eLocation, #eInventory, #eDate, #eNotes
  pcSave,      \* saveEdit: "idle", or "put" after its getEntry resolved
  saveLocal,   \* saveEdit's locals item and existing
  pcImport,    \* importJSON: "idle", or "loop"
  impLocal,    \* importJSON's locals entries and the index of the loop
  file,        \* the last file downloaded by an export, if any
  call,        \* the last handler run: its inputs, the store before it, its outcome
  prev,        \* op, status and id of the handler run before that
  ops,         \* handlers run
  writes,      \* readwrite transactions issued
  stamped,     \* the ids whose stored created_at the app took from its clock
  connections, \* the connections opened by openDB() (up to MaxConnections)
  deleted,     \* the ids a delete removed and no create or import wrote since
  queue,       \* the transactions requested and not yet run, oldest first
  qValue,      \* the value of #q
  searchList   \* #searchList: the ids of the entries whose cards it holds

vars ==
  << db, now, nextId, modalOpen, eId, editForm, pcSave, saveLocal, pcImport,
     impLocal, file, call, prev, ops, writes, stamped, connections, deleted,
     queue, qValue, searchList >>

\* What the search page holds.
search == << qValue, searchList >>

NoEntry == ParseObject(<< >>)
NoSave == [item |-> << >>, existing |-> NoEntry]
NoImport == [entries |-> << >>, i |-> 0]

\* A handler run: the handler, the message it ends with, its inputs (form,
\* or doc and whether it is the downloaded file), the id it is about, the
\* store and the clock when it began, what importJSON returned, and
\* whether it is an import of the text that the run before it imported.
Call(op, status, form, doc, fromFile, id, pre, ret) ==
  [op |-> op, status |-> status, form |-> form, doc |-> doc,
   fromFile |-> fromFile, id |-> id, pre |-> pre, at |-> now, ret |-> ret,
   again |-> (op = "import" /\ call.op = "import" /\ call.doc = doc)]

NoCall ==
  [op |-> "none", status |-> "", form |-> EmptyForm, doc |-> Malformed,
   fromFile |-> FALSE, id |-> Undef, pre |-> << >>, at |-> 0, ret |-> -1,
   again |-> FALSE]

Init ==
  /\ db = << >>
  /\ now = 0
  /\ nextId = 1
  /\ modalOpen = FALSE
  /\ eId = Str(<< >>)
  /\ editForm = EmptyForm
  /\ pcSave = "idle"
  /\ saveLocal = NoSave
  /\ pcImport = "idle"
  /\ impLocal = NoImport
  /\ file = << >>
  /\ call = NoCall
  /\ prev = [op |-> "none", status |-> "", id |-> Undef]
  /\ ops = 0
  /\ writes = 0
  /\ stamped = {}
  /\ connections = 0
  /\ deleted = {}
  /\ queue = << >>
  /\ qValue = << >>
  /\ searchList = << >>

\* No handler is between two of its steps.
Idle == pcSave = "idle" /\ pcImport = "idle"

Begin ==
  /\ ops < MaxOps
  /\ ops' = ops + 1
  /\ prev' = [op |-> call.op, status |-> call.status, id |-> call.id]

\* The clock moves on: once at most since the last handler began (only the
\* order of the timestamps matters), and while a handler may still run.
Tick ==
  /\ UNCHANGED search
  /\ now = call.at
  /\ ops < MaxOps
  /\ now' = now + 1
  /\ UNCHANGED << db, nextId, modalOpen, eId, editForm, pcSave, saveLocal,
                  pcImport, impLocal, file, call, prev, ops, writes, stamped,
                  connections, deleted, queue >>

\* await renderMaster(); await renderSearch(), at the end of a handler that
\* wrote: each reads the store with getAllEntries(), which opens a
\* connection, and sorts the entries newest first as exportJSON does.  When
\* the sort of renderMaster() throws, renderSearch() is not called and the
\* handler's catch takes the error.  count is the number of connections
\* opened before.  (The master list is not part of the model.)
Refresh(store, count, throws) ==
  /\ SortThrows(getAllEntries(store)) => throws
  /\ throws => SortMayThrow(getAllEntries(store))
  /\ qValue' = qValue
  /\ IF throws
     THEN /\ connections' = openDB(count)
          /\ UNCHANGED searchList
     ELSE /\ connections' = openDB(openDB(count))
          /\ searchList' = renderSearch(store, qValue)

\* A slip: an entry that is not found is taken as an empty one.
NotFoundNever(got) == FALSE

\* if (!existing)
NotFound(got) == ~got.found

\* closeModal(): the form is reset and the dialog closed.
closeModal ==
  /\ modalOpen' = FALSE
  /\ editForm' = EmptyForm
  /\ eId' = Str(<< >>)

(***************************************************************************)
(* The log form's submit handler.                                          *)
(***************************************************************************)
Submit(f) ==
  /\ UNCHANGED search
  /\ ~modalOpen
  /\ Begin
  /\ IF ItemMissing(f)
     THEN /\ call' = Call("create", "Item required", f, Malformed, FALSE,
                          Undef, db, -1)
          /\ UNCHANGED << db, nextId, writes, stamped, connections, deleted >>
     ELSE LET entry == NewEntry(f, nextId, now)
              res == addEntry(db, entry)
          IN /\ nextId' = nextId + 1
             /\ writes' = writes + 1
             /\ connections' = openDB(connections)
             /\ db' = res.store
             /\ deleted' = IF res.ok THEN deleted \ {entry.id} ELSE deleted
             /\ stamped' = IF res.ok THEN stamped \cup {entry.id} ELSE stamped
             /\ call' = Call("create",
                             IF res.ok THEN "Yeeted." ELSE "Save failed",
                             f, Malformed, FALSE, entry.id, db, -1)
  /\ UNCHANGED << now, modalOpen, eId, editForm, pcSave, saveLocal,
                  pcImport, impLocal, file, queue >>

(***************************************************************************)
(* The edit modal.                                                         *)
(***************************************************************************)
\* A tap on the card of entry id: openEdit(id).
OpenEdit(id) ==
  /\ UNCHANGED search
  /\ ~modalOpen
  /\ ops < MaxOps
  /\ LET got == getEntry(db, id)
     IN IF ~got.found
        THEN UNCHANGED << modalOpen, eId, editForm >>
        ELSE /\ eId' = Str(ToText(got.entry.id))
             /\ editForm' = EditFormOf(got.entry)
             /\ modalOpen' = TRUE
  /\ connections' = openDB(connections)
  /\ UNCHANGED << db, now, nextId, pcSave, saveLocal, pcImport, impLocal,
                  file, call, prev, ops, writes, stamped, deleted, queue >>

\* Cancel, close, or a tap on the backdrop.
CloseModal ==
  /\ UNCHANGED search
  /\ modalOpen
  /\ ops < MaxOps
  /\ closeModal
  /\ UNCHANGED << db, now, nextId, pcSave, saveLocal, pcImport, impLocal,
                  file, call, prev, ops, writes, stamped, connections,
                  deleted, queue >>

\* saveEdit() up to the resolution of getEntry(id); the user has typed f.
SaveEditGet(f) ==
  /\ UNCHANGED search
  /\ modalOpen
  /\ pcSave = "idle"
  /\ Begin
  /\ editForm' = f
  /\ LET item == Trim(f.item)
         got == getEntry(db, eId)
     IN IF ItemMissing(f)
        THEN /\ call' = Call("update", "Item required", f, Malformed, FALSE,
                             eId, db, -1)
             /\ UNCHANGED << pcSave, saveLocal, connections >>
        ELSE IF NotFound(got)
        THEN /\ call' = Call("update", "Could not load entry for update.",
                             f, Malformed, FALSE, eId, db, -1)
             /\ connections' = openDB(connections)
             /\ UNCHANGED << pcSave, saveLocal >>
        ELSE /\ call' = Call("update", "", f, Malformed, FALSE, eId, db, -1)
             /\ connections' = openDB(connections)
             /\ pcSave' = "put"
             /\ saveLocal' = [item |-> item, existing |-> got.entry]
  /\ UNCHANGED << db, now, nextId, modalOpen, eId, pcImport, impLocal,
                  file, writes, stamped, deleted, queue >>

\* saveEdit() from there: the entry is built and put.
SaveEditPut ==
  /\ pcSave = "put"
  /\ LET updated == UpdatedEntry(saveLocal.existing, saveLocal.item,
                                 editForm, now)
         res == putEntry(db, updated)
     IN /\ db' = res.store
        /\ writes' = writes + 1
        /\ \E throws \in BOOLEAN :
             /\ call' = [call EXCEPT
                           !.status = IF res.ok /\ ~throws THEN "Updated"
                                      ELSE "Update failed"]
             /\ IF res.ok
                THEN /\ closeModal
                     /\ Refresh(res.store, openDB(connections), throws)
                ELSE /\ ~throws
                     /\ connections' = openDB(connections)
                     /\ UNCHANGED << modalOpen, eId, editForm, search >>
  /\ pcSave' = "idle"
  /\ saveLocal' = NoSave
  /\ UNCHANGED << now, nextId, pcImport, impLocal, file, prev, ops, stamped,
                  deleted, queue >>

\* confirmDelete(); ok is the user's answer to confirm().
ConfirmDelete(ok) ==
  /\ modalOpen
  /\ IF ~ok
     THEN UNCHANGED vars
     ELSE LET res == deleteEntry(db, eId)
          IN /\ Begin
             /\ db' = res.store
             /\ writes' = writes + 1
             /\ stamped' = IF res.ok THEN stamped \ {eId} ELSE stamped
             /\ deleted' = IF res.ok THEN deleted \cup {eId} ELSE deleted
             /\ \E throws \in BOOLEAN :
                  /\ call' = Call("delete",
                                  IF res.ok /\ ~throws THEN "Deleted"
                                  ELSE "Delete failed",
                                  EmptyForm, Malformed, FALSE, eId, db, -1)
                  /\ IF res.ok
                     THEN /\ closeModal
                          /\ Refresh(res.store, openDB(connections), throws)
                     ELSE /\ ~throws
                          /\ connections' = openDB(connections)
                          /\ UNCHANGED << modalOpen, eId, editForm, search >>
             /\ UNCHANGED << now, nextId, pcSave, saveLocal, pcImport,
                             impLocal, file, queue >>

(***************************************************************************)
(* Export and import.                                                      *)
(***************************************************************************)
\* The click handler of #btnExport.
Export ==
  /\ UNCHANGED search
  /\ ~modalOpen
  /\ Begin
  /\ \E throws \in BOOLEAN :
       /\ SortThrows(getAllEntries(db)) => throws
       /\ throws => SortMayThrow(getAllEntries(db))
       /\ IF throws
          THEN /\ call' = Call("export", "Export failed", EmptyForm,
                               Malformed, FALSE, Undef, db, -1)
               /\ UNCHANGED file
          ELSE /\ file' = << exportJSON(db, now) >>
               /\ call' = Call("export", "Exported", EmptyForm, file'[1],
                               FALSE, Undef, db, -1)
  /\ connections' = openDB(connections)
  /\ UNCHANGED << db, now, nextId, modalOpen, eId, editForm, pcSave,
                  saveLocal, pcImport, impLocal, writes, stamped, deleted,
                  queue >>

\* The change handler of #importFile, up to the loop of importJSON.
ImportStart(doc, fromFile) ==
  /\ UNCHANGED search
  /\ ~modalOpen
  /\ pcImport = "idle"
  /\ Begin
  /\ IF ParseFails(doc)
     THEN /\ call' = Call("import", "Import failed: Invalid JSON.", EmptyForm,
                          doc, fromFile, Undef, db, -1)
          /\ UNCHANGED << pcImport, impLocal >>
     ELSE IF EntriesMissing(doc)
     THEN /\ call' = Call("import",
                          "Import failed: JSON must include { entries: [...] }.",
                          EmptyForm, doc, fromFile, Undef, db, -1)
          /\ UNCHANGED << pcImport, impLocal >>
     ELSE /\ call' = Call("import", "", EmptyForm, doc, fromFile, Undef, db, -1)
          /\ pcImport' = "loop"
          /\ impLocal' = [entries |-> [i \in 1..Len(doc.entries) |->
                                         ParseElement(doc.entries[i])],
                          i |-> 1]
  /\ UNCHANGED << db, now, nextId, modalOpen, eId, editForm, pcSave,
                  saveLocal, file, writes, stamped, connections, deleted,
                  queue >>

\* The index of the first record of entries from index i on (one more
\* than their number when there is none): the loop skips, without a pause,
\* each element e with !e || typeof e !== "object".
RECURSIVE NextRecord(_, _)
NextRecord(entries, i) ==
  IF i > Len(entries) \/ entries[i].isObject THEN i
  ELSE NextRecord(entries, i + 1)

\* The loop up to the resolution of its next putEntry: the record is
\* normalized and put.
ImportStep ==
  /\ UNCHANGED search
  /\ pcImport = "loop"
  /\ NextRecord(impLocal.entries, impLocal.i) <= Len(impLocal.entries)
  /\ LET j == NextRecord(impLocal.entries, impLocal.i)
         el == impLocal.entries[j]
         e == Normalize(el.obj, nextId, now)
         res == putEntry(db, e)
     IN /\ nextId' = IF NeedsId(el.obj) THEN nextId + 1 ELSE nextId
        /\ writes' = writes + 1
        /\ connections' = openDB(connections)
        /\ db' = res.store
        /\ deleted' = IF res.ok THEN deleted \ {e.id} ELSE deleted
        /\ stamped' =
             IF ~res.ok THEN stamped
             ELSE IF ~Truthy(el.obj.created_at) THEN stamped \cup {e.id}
             ELSE IF e.id \in DOMAIN db
                     /\ db[e.id].created_at = e.created_at THEN stamped
             ELSE stamped \ {e.id}
        /\ IF res.ok
           THEN /\ impLocal' = [impLocal EXCEPT !.i = j + 1]
                /\ UNCHANGED << call, pcImport >>
           ELSE /\ call' = [call EXCEPT !.status = "Import failed: DataError"]
                /\ pcImport' = "idle"
                /\ impLocal' = NoImport
  /\ UNCHANGED << now, modalOpen, eId, editForm, pcSave, saveLocal, file,
                  prev, ops, queue >>

\* No record is left: importJSON returns, the handler toasts the count and
\* refreshes the lists.
ImportReturn ==
  /\ pcImport = "loop"
  /\ NextRecord(impLocal.entries, impLocal.i) > Len(impLocal.entries)
  /\ \E throws \in BOOLEAN :
       /\ call' = [call EXCEPT
                     !.status = IF throws THEN "Import failed: TypeError"
                                ELSE "Imported",
                     !.ret = importCount(impLocal.entries)]
       /\ Refresh(db, connections, throws)
  /\ pcImport' = "idle"
  /\ impLocal' = NoImport
  /\ UNCHANGED << db, now, nextId, modalOpen, eId, editForm, pcSave,
                  saveLocal, file, prev, ops, writes, stamped, deleted, queue >>

(***************************************************************************)
(* One user at one page, acting in sequence: a handler is started only     *)
(* when none is between two of its steps.                                  *)
(***************************************************************************)
Next ==
  \/ Tick
  \/ Idle /\ \E f \in Forms : Submit(f)
  \/ Idle /\ \E id \in DOMAIN db : OpenEdit(id)
  \/ Idle /\ CloseModal
  \/ Idle /\ \E f \in Forms \cup {editForm} : SaveEditGet(f)
  \/ SaveEditPut
  \/ Idle /\ \E ok \in BOOLEAN : ConfirmDelete(ok)
  \/ Idle /\ Export
  \/ Idle /\ \E doc \in Payloads : ImportStart(doc, FALSE)
  \/ Idle /\ file # << >> /\ ImportStart(file[1], TRUE)
  \/ ImportStep
  \/ ImportReturn

Spec == Init /\ [][Next]_vars

(***************************************************************************)
(* The log form and the edit modal with handler runs that overlap: a       *)
(* handler runs up to its next await, and a tap or click may start another *)
(* handler before the awaited transaction has run.  Every operation        *)
(* requests its connection with openDB() and creates its transaction when  *)
(* the connection is open; connections open in the order requested, and    *)
(* transactions on one store take effect in the order created, so the      *)
(* transactions requested run oldest first.  call is the handler run that  *)
(* ended last, prev the one that ended before it.                          *)
(***************************************************************************)
\* A transaction requested by handler h: the id it is about, and the item
\* and the entry the handler holds in its locals.
Tx(op, h, id, item, entry, form) ==
  [op |-> op, h |-> h, id |-> id, item |-> item, entry |-> entry,
   form |-> form]

\* A handler run ends with message status.
Finish(op, status, form, id) ==
  /\ prev' = [op |-> call.op, status |-> call.status, id |-> call.id]
  /\ call' = Call(op, status, form, Malformed, FALSE, id, db, -1)

\* The transaction to run next is one that handler h requested.
NextTx(op, h) ==
  /\ queue # << >>
  /\ Head(queue).op = op
  /\ Head(queue).h = h

\* The submit handler up to await addEntry(entry).
SubmitStart(f) ==
  /\ UNCHANGED search
  /\ ~modalOpen
  /\ ops < MaxOps
  /\ ops' = ops + 1
  /\ IF ItemMissing(f)
     THEN /\ Finish("create", "Item required", f, Undef)
          /\ UNCHANGED << nextId, connections, queue >>
     ELSE LET entry == NewEntry(f, nextId, now)
          IN /\ nextId' = nextId + 1
             /\ connections' = openDB(connections)
             /\ queue' = Append(queue, Tx("add", "submit", entry.id,
                                          << >>, entry, f))
             /\ UNCHANGED << call, prev >>
  /\ UNCHANGED << db, now, modalOpen, eId, editForm, pcSave, saveLocal,
                  pcImport, impLocal, file, writes, stamped, deleted >>

\* The add runs and the handler goes on from its await.
AddCommit ==
  /\ UNCHANGED search
  /\ NextTx("add", "submit")
  /\ LET t == Head(queue)
         res == addEntry(db, t.entry)
     IN /\ db' = res.store
        /\ writes' = writes + 1
        /\ stamped' = IF res.ok THEN stamped \cup {t.id} ELSE stamped
        /\ deleted' = IF res.ok THEN deleted \ {t.id} ELSE deleted
        /\ Finish("create", IF res.ok THEN "Yeeted." ELSE "Save failed",
                  t.form, t.id)
  /\ queue' = Tail(queue)
  /\ UNCHANGED << now, nextId, modalOpen, eId, editForm, pcSave, saveLocal,
                  pcImport, impLocal, file, ops, connections >>

\* A tap on the card of entry id: openEdit(id) up to await getEntry(id).
\* One card is tapped at a time.
OpenEditStart(id) ==
  /\ UNCHANGED search
  /\ ~modalOpen
  /\ ops < MaxOps
  /\ \A i \in 1..Len(queue) : queue[i].h # "openEdit"
  /\ connections' = openDB(connections)
  /\ queue' = Append(queue, Tx("get", "openEdit", id, << >>, NoEntry,
                               EmptyForm))
  /\ UNCHANGED << db, now, nextId, modalOpen, eId, editForm, pcSave,
                  saveLocal, pcImport, impLocal, file, call, prev, ops,
                  writes, stamped, deleted >>

\* The get runs and openEdit goes on: it fills the inputs and shows the
\* dialog, or toasts that the entry is not found.
OpenEditGot ==
  /\ UNCHANGED search
  /\ NextTx("get", "openEdit")
  /\ LET got == getEntry(db, Head(queue).id)
     IN IF NotFound(got)
        THEN UNCHANGED << modalOpen, eId, editForm >>
        ELSE /\ eId' = Str(ToText(got.entry.id))
             /\ editForm' = EditFormOf(got.entry)
             /\ modalOpen' = TRUE
  /\ queue' = Tail(queue)
  /\ UNCHANGED << db, now, nextId, pcSave, saveLocal, pcImport, impLocal,
                  file, call, prev, ops, writes, stamped, connections,
                  deleted >>

\* saveEdit() up to await getEntry(id); the user has typed f.
SaveEditStart(f) ==
  /\ UNCHANGED search
  /\ modalOpen
  /\ ops < MaxOps
  /\ ops' = ops + 1
  /\ editForm' = f
  /\ IF ItemMissing(f)
     THEN /\ Finish("update", "Item required", f, eId)
          /\ UNCHANGED << connections, queue >>
     ELSE /\ connections' = openDB(connections)
          /\ queue' = Append(queue, Tx("get", "saveEdit", eId, Trim(f.item),
                                       NoEntry, f))
          /\ UNCHANGED << call, prev >>
  /\ UNCHANGED << db, now, nextId, modalOpen, eId, pcSave, saveLocal,
                  pcImport, impLocal, file, writes, stamped, deleted >>

\* The get runs and saveEdit goes on up to await putEntry(updated): it
\* reads the other inputs as they are now.
SaveEditGot ==
  /\ UNCHANGED search
  /\ NextTx("get", "saveEdit")
  /\ LET t == Head(queue)
         got == getEntry(db, t.id)
     IN IF NotFound(got)
        THEN /\ Finish("update", "Could not load entry for update.", t.form,
                       t.id)
             /\ queue' = Tail(queue)
             /\ UNCHANGED connections
        ELSE /\ connections' = openDB(connections)
             /\ queue' = Append(Tail(queue),
                                Tx("put", "saveEdit", t.id, t.item,
                                   UpdatedEntry(got.entry, t.item, editForm,
                                                now),
                                   t.form))
             /\ UNCHANGED << call, prev >>
  /\ UNCHANGED << db, now, nextId, modalOpen, eId, editForm, pcSave,
                  saveLocal, pcImport, impLocal, file, ops, writes, stamped,
                  deleted >>

\* The put runs and saveEdit goes on from its await; the lists are read
\* anew at once.
SaveEditCommit ==
  /\ NextTx("put", "saveEdit")
  /\ LET t == Head(queue)
         res == putEntry(db, t.entry)
     IN /\ db' = res.store
        /\ writes' = writes + 1
        /\ \E throws \in BOOLEAN :
             /\ Finish("update",
                       IF res.ok /\ ~throws THEN "Updated"
                       ELSE "Update failed",
                       t.form, t.id)
             /\ IF res.ok
                THEN /\ closeModal
                     /\ Refresh(res.store, connections, throws)
                ELSE /\ ~throws
                     /\ UNCHANGED << modalOpen, eId, editForm, connections,
                                     search >>
  /\ queue' = Tail(queue)
  /\ UNCHANGED << now, nextId, pcSave, saveLocal, pcImport, impLocal, file,
                  ops, stamped, deleted >>

\* confirmDelete(), confirmed, up to await deleteEntry(id).
DeleteStart ==
  /\ UNCHANGED search
  /\ modalOpen
  /\ ops < MaxOps
  /\ ops' = ops + 1
  /\ connections' = openDB(connections)
  /\ queue' = Append(queue, Tx("delete", "confirmDelete", eId, << >>,
                               NoEntry, EmptyForm))
  /\ UNCHANGED << db, now, nextId, modalOpen, eId, editForm, pcSave,
                  saveLocal, pcImport, impLocal, file, call, prev, writes,
                  stamped, deleted >>

\* The delete runs and confirmDelete goes on from its await; the lists
\* are read anew at once.
DeleteCommit ==
  /\ NextTx("delete", "confirmDelete")
  /\ LET t == Head(queue)
         res == deleteEntry(db, t.id)
     IN /\ db' = res.store
        /\ writes' = writes + 1
        /\ stamped' = IF res.ok THEN stamped \ {t.id} ELSE stamped
        /\ deleted' = IF res.ok THEN deleted \cup {t.id} ELSE deleted
        /\ \E throws \in BOOLEAN :
             /\ Finish("delete",
                       IF res.ok /\ ~throws THEN "Deleted"
                       ELSE "Delete failed",
                       EmptyForm, t.id)
             /\ IF res.ok
                THEN /\ closeModal
                     /\ Refresh(res.store, connections, throws)
                ELSE /\ ~throws
                     /\ UNCHANGED << modalOpen, eId, editForm, connections,
                                     search >>
  /\ queue' = Tail(queue)
  /\ UNCHANGED << now, nextId, pcSave, saveLocal, pcImport, impLocal, file,
                  ops >>

NextConcurrent ==
  \/ Tick
  \/ \E f \in Forms : SubmitStart(f)
  \/ AddCommit
  \/ \E id \in DOMAIN db : OpenEditStart(id)
  \/ OpenEditGot
  \/ CloseModal
  \/ \E f \in Forms \cup {editForm} : SaveEditStart(f)
  \/ SaveEditGot
  \/ SaveEditCommit
  \/ DeleteStart
  \/ DeleteCommit

SpecConcurrent == Init /\ [][NextConcurrent]_vars

(***************************************************************************)
(* The search page over a store that holds some of four sample entries.    *)
(* Their order by created_at is not their order by id.                     *)
(***************************************************************************)
SampleEntry(id, created, item, location, inventory, date, notes) ==
  [id |-> Str(id), created_at |-> Str(created), updated_at |-> Null,
   item |-> Str(item), location |-> Str(location),
   inventory |-> Str(inventory), date |-> Str(date), notes |-> Str(notes)]

SampleEntries ==
  { SampleEntry(<< "s", "1" >>, << "0", "2" >>, << "D", "r", "i", "l", "l" >>,
                << "G", "a", "r", "a", "g", "e" >>, << >>, << >>,
                << "n", "e", "e", "d", "s", " ", "b", "a", "t", "t", "e",
                   "r", "y" >>),
    SampleEntry(<< "s", "2" >>, << "0", "4" >>, << "S", "a", "w" >>, << >>,
                << "3" >>, << >>, << >>),
    SampleEntry(<< "s", "3" >>, << "0", "1" >>, << "a", "b" >>,
                << "c", "d" >>, << >>, << "3" >>, << >>),
    SampleEntry(<< "s", "4" >>, << "0", "3" >>, << "b" >>, << >>, << >>,
                << >>, << "3", " ", "l", "e", "f", "t" >>) }

\* The store that holds the entries of set S.
StoreOf(S) == [key \in {e.id : e \in S} |-> CHOOSE e \in S : e.id = key]

\* What the user may have typed into #q.
Queries ==
  { << >>,
    << "g", "a", "r", "a", "g", "e" >>,
    << "B", "A", "T", "T", "E", "R", "Y" >>,
    << "3" >>,
    << " ", "b" >>,
    << "b", "c" >>,
    << "b", " ", "c" >>,
    << "l", " ", "g" >>,
    << " ", " ", " " >>,
    << "G", "A", "R", "A", "G", "E", " " >> }

InitSearch ==
  /\ db \in {StoreOf(S) : S \in SUBSET SampleEntries}
  /\ now = 0
  /\ nextId = 1
  /\ modalOpen = FALSE
  /\ eId = Str(<< >>)
  /\ editForm = EmptyForm
  /\ pcSave = "idle"
  /\ saveLocal = NoSave
  /\ pcImport = "idle"
  /\ impLocal = NoImport
  /\ file = << >>
  /\ call = NoCall
  /\ prev = [op |-> "none", status |-> "", id |-> Undef]
  /\ ops = 0
  /\ writes = 0
  /\ stamped = {}
  /\ connections = 0
  /\ deleted = {}
  /\ queue = << >>
  /\ qValue = << >>
  /\ searchList = << >>

\* The input handler of #q, after the user has made its value raw:
\* renderSearch().  An error of the sort is caught by no one, and the list
\* stays as it was.
TypeQuery(raw) ==
  /\ Begin
  /\ qValue' = raw
  /\ \E throws \in BOOLEAN :
       /\ SortThrows(getAllEntries(db)) => throws
       /\ throws => SortMayThrow(getAllEntries(db))
       /\ searchList' = IF throws THEN searchList ELSE renderSearch(db, raw)
       /\ call' = Call("search", IF throws THEN "TypeError" ELSE "",
                       EmptyForm, Malformed, FALSE, Undef, db, -1)
  /\ connections' = openDB(connections)
  /\ UNCHANGED << db, now, nextId, modalOpen, eId, editForm, pcSave,
                  saveLocal, pcImport, impLocal, file, writes, stamped,
                  deleted, queue >>

NextSearch == \E raw \in Queries : TypeQuery(raw)

SpecSearch == InitSearch /\ [][NextSearch]_vars

(***************************************************************************)
(* Properties.  id, call.pre and db relate the store before the last       *)
(* handler run to the store now; no other handler has run since.           *)
(***************************************************************************)
TextFields == {"item", "location", "inventory", "date", "notes"}

IsTimestamp(v) == v.k = "string"

\* The text of a clock reading between the start of the last handler and now.
StampedByCall(v) == \E t \in call.at..now : v = nowISO(t)

\* The records of the imported payload that carry an id the store takes,
\* each the last of its id: what the store holds at that id is its
\* normalization.
GivenId(el) ==
  el.rec /\ Truthy(ParseObject(el.members).id)
         /\ ValidKey(ParseObject(el.members).id)

RecordsById ==
  {i \in 1..Len(call.doc.entries) :
     /\ GivenId(call.doc.entries[i])
     /\ \A j \in (i + 1)..Len(call.doc.entries) :
          ~(/\ GivenId(call.doc.entries[j])
            /\ ParseObject(call.doc.entries[j].members).id
                 = ParseObject(call.doc.entries[i].members).id)}

PayloadIds ==
  {ParseObject(call.doc.entries[i].members).id : i \in RecordsById}

\* C1: after a submission whose trimmed item is not empty, getEntry of the
\* new id returns an entry whose item, location, inventory, date and notes
\* are the trimmed inputs, whose id and created_at are not null, and whose
\* updated_at is null.
C1_CreateThenGet ==
  (call.op = "create" /\ Trim(call.form.item) # << >>) =>
    LET got == getEntry(db, call.id)
    IN /\ call.status = "Yeeted."
       /\ got.found
       /\ got.entry.id = call.id
       /\ got.entry.id.k \notin {"null", "undefined"}
       /\ got.entry.created_at.k \notin {"null", "undefined"}
       /\ got.entry.updated_at = Null
       /\ got.entry.item = Str(Trim(call.form.item))
       /\ got.entry.location = Str(Trim(call.form.location))
       /\ got.entry.inventory = Str(Trim(call.form.inventory))
       /\ got.entry.date = Str(Trim(call.form.date))
       /\ got.entry.notes = Str(Trim(call.form.notes))

C1_Witness ==
  /\ call.op = "create"
  /\ call.status = "Yeeted."
  /\ call.form.item = << " ", "b", " " >>
  /\ DOMAIN call.pre # {}
  /\ getEntry(db, call.id).entry.item = Str(<< "b" >>)
  /\ getEntry(db, call.id).entry.notes = Str(<< "a", " ", "b" >>)

\* C2: a submission whose item is empty or only whitespace ends with the
\* message that the item is required, leaves the store as it was and issues
\* no addEntry (no transaction, no uuid).
C2_RejectedCreate ==
  [][(call'.op = "create" /\ ops' = ops + 1 /\ Trim(call'.form.item) = << >>)
       => /\ call'.status = "Item required"
          /\ db' = db
          /\ writes' = writes
          /\ nextId' = nextId]_vars

C2_Witness ==
  /\ call.op = "create"
  /\ call.form.item = << " ", " ", " " >>
  /\ call.status = "Item required"
  /\ DOMAIN db # {}
  /\ db = call.pre

\* C3, as claimed: an update leaves id and created_at as they were, its
\* updated_at is not before that of an update just before it, and not before
\* the entry's created_at.
C3_Original ==
  (call.op = "update" /\ call.status = "Updated") =>
    LET old == call.pre[call.id]
        new == db[call.id]
    IN /\ new.id = old.id
       /\ new.created_at = old.created_at
       /\ IsTimestamp(new.updated_at)
       /\ CompareText(new.updated_at.s, new.created_at.s) >= 0
       /\ (prev.op = "update" /\ prev.status = "Updated" /\ prev.id = call.id)
            => CompareText(new.updated_at.s, old.updated_at.s) >= 0

\* C3, amended: an update leaves id and created_at as they were and its
\* updated_at is not before that of an update just before it; it is not
\* before the entry's created_at when the app took that from its clock (an
\* import may store a created_at later than the clock).
C3_TwoUpdates ==
  (call.op = "update" /\ call.status = "Updated") =>
    LET old == call.pre[call.id]
        new == db[call.id]
    IN /\ new.id = old.id
       /\ new.created_at = old.created_at
       /\ IsTimestamp(new.updated_at)
       /\ call.id \in stamped
            => CompareText(new.updated_at.s, new.created_at.s) >= 0
       /\ (prev.op = "update" /\ prev.status = "Updated" /\ prev.id = call.id)
            => CompareText(new.updated_at.s, old.updated_at.s) >= 0

C3_Witness ==
  /\ call.op = "update"
  /\ call.status = "Updated"
  /\ prev.op = "update"
  /\ prev.status = "Updated"
  /\ prev.id = call.id
  /\ call.id \in stamped
  /\ CompareText(db[call.id].updated_at.s, call.pre[call.id].updated_at.s) > 0
  /\ CompareText(call.pre[call.id].updated_at.s, db[call.id].created_at.s) > 0

\* C4: importing the file an export has just produced leaves the store as it
\* was: the same ids, and at each id the same field values.
C4_RoundTrip ==
  (/\ call.op = "import"
   /\ call.fromFile
   /\ call.status = "Imported"
   /\ prev.op = "export"
   /\ prev.status = "Exported") => db = call.pre

\* C5: an import that fails at a record leaves none of the payload's records
\* in the store: the store is as it was before the import.
C5_ImportAllOrNothing ==
  (call.op = "import" /\ call.status = "Import failed: DataError")
    => db = call.pre

\* C6: import returns the number of the payload's elements that are records,
\* not counting the elements it skipped.
C6_ImportCount ==
  (call.op = "import" /\ call.status = "Imported") =>
    call.ret = Cardinality({i \in 1..Len(call.doc.entries) :
                              call.doc.entries[i].rec})

\* C7, as claimed: every stored entry has an item that is not empty.
C7_Original == \A id \in DOMAIN db : db[id].item.s # << >>

\* C7, amended: every entry that create or update writes has an item that
\* is text and not empty after trimming; only import stores an entry with
\* an empty item.
C7_WrittenItemNotEmpty ==
  [][pcImport # "loop" =>
       \A id \in DOMAIN db' :
         (id \notin DOMAIN db \/ db'[id] # db[id]) =>
           (db'[id].item.k = "string" /\ Trim(db'[id].item.s) # << >>)]_vars

C7_Witness ==
  /\ call.op = "update"
  /\ call.status = "Updated"
  /\ call.pre[call.id].item.s = << >>
  /\ db[call.id].item.s = << "b" >>

\* C8, as claimed: while an id stays in the store its created_at is the same
\* in every state.
C8_Original ==
  [][\A id \in DOMAIN db \cap DOMAIN db' :
       db'[id].created_at = db[id].created_at]_vars

\* C8, amended: while an id stays in the store neither create nor update
\* changes its created_at; only the put of an imported record of that id
\* does.
C8_OnlyImportRestamps ==
  [][\A id \in DOMAIN db \cap DOMAIN db' :
       db'[id].created_at # db[id].created_at =>
         /\ pcImport = "loop"
         /\ NextRecord(impLocal.entries, impLocal.i) <= Len(impLocal.entries)
         /\ impLocal.entries[NextRecord(impLocal.entries, impLocal.i)].obj.id
              = id]_vars

C8_Witness ==
  /\ call.op = "update"
  /\ call.status = "Updated"
  /\ call.id \notin stamped
  /\ db[call.id].item # call.pre[call.id].item
  /\ db[call.id].created_at = call.pre[call.id].created_at
  /\ db[call.id].created_at = Str(<< "9", "9" >>)

\* C9, as claimed: import stores each of item, location, inventory, date and
\* notes unchanged when it is text, and as the empty text when it is absent
\* or no text.
C9_Original ==
  (call.op = "import" /\ call.status = "Imported") =>
    \A i \in RecordsById : \A f \in TextFields :
      LET given == ParseObject(call.doc.entries[i].members)
      IN Get(db[given.id], f) =
           IF Get(given, f).k = "string" THEN Get(given, f) ELSE Str(<< >>)

\* C9, amended: import stores each of item, location, inventory, date and
\* notes unchanged when it is text, as the empty text when it is absent or
\* null, and otherwise as the text String() gives its value ("7" for 7,
\* "true" for true, "[object Object]" for an object).
C9_Coercion ==
  (call.op = "import" /\ call.status = "Imported") =>
    \A i \in RecordsById : \A f \in TextFields :
      LET given == ParseObject(call.doc.entries[i].members)
      IN Get(db[given.id], f) =
           IF Get(given, f).k = "string" THEN Get(given, f)
           ELSE IF Get(given, f).k \in {"undefined", "null"} THEN Str(<< >>)
           ELSE Str(ToText(Get(given, f)))

C9_Witness ==
  /\ call.op = "import"
  /\ call.status = "Imported"
  /\ call.doc = PayloadUntyped
  /\ db[Str(<< "a" >>)].item = Str(<< "7" >>)
  /\ db[Str(<< "a" >>)].location = Str(<< "t", "r", "u", "e" >>)
  /\ db[Str(<< "a" >>)].inventory = Str(<< >>)
  /\ db[Str(<< "a" >>)].date = Str(ToText(Obj))
  /\ db[Str(<< "a" >>)].notes = Str(<< " ", "n" >>)

\* C10: importing { "entries": [{}] } adds one entry and changes no other:
\* its id was not in the store, its created_at is the time of the import,
\* its updated_at is null and its five text fields are empty.  In any
\* import, a record without created_at gets the time of the import, a record
\* without updated_at gets null, and each record without an id adds an id
\* that was not in the store.
C10_ImportDefaults ==
  (call.op = "import" /\ call.status = "Imported") =>
    /\ call.doc = PayloadEmptyRecord =>
         \E id \in DOMAIN db \ DOMAIN call.pre :
           /\ DOMAIN db = DOMAIN call.pre \cup {id}
           /\ \A other \in DOMAIN call.pre : db[other] = call.pre[other]
           /\ db[id].id = id
           /\ StampedByCall(db[id].created_at)
           /\ db[id].updated_at = Null
           /\ \A f \in TextFields : Get(db[id], f) = Str(<< >>)
    /\ \A i \in RecordsById :
         LET given == ParseObject(call.doc.entries[i].members)
         IN /\ given.created_at.k = "undefined"
                 => StampedByCall(db[given.id].created_at)
            /\ given.updated_at.k = "undefined"
                 => db[given.id].updated_at = Null
    /\ Cardinality(DOMAIN db \ (DOMAIN call.pre \cup PayloadIds))
         = Cardinality({i \in 1..Len(call.doc.entries) :
                          /\ call.doc.entries[i].rec
                          /\ ~GivenId(call.doc.entries[i])})

C10_Witness ==
  /\ call.op = "import"
  /\ call.status = "Imported"
  /\ call.doc = PayloadEmptyRecord
  /\ DOMAIN call.pre # {}
  /\ Cardinality(DOMAIN db) = Cardinality(DOMAIN call.pre) + 1
  /\ now > call.at
  /\ \E id \in DOMAIN db \ DOMAIN call.pre : db[id].created_at = nowISO(now)

\* C11: import never fails on an id that is taken (it fails at a put only
\* when a record's id is no key the store takes); once importJSON has
\* returned, the entry
\* stored at each id the payload gives is the normalization of the last
\* record of that id in the payload, whatever was stored there before, and
\* no field of the record stored before is kept.
C11_ImportUpserts ==
  /\ (call.op = "import" /\ call.status = "Import failed: DataError") =>
       \E i \in 1..Len(call.doc.entries) :
         /\ call.doc.entries[i].rec
         /\ Truthy(ParseObject(call.doc.entries[i].members).id)
         /\ ~ValidKey(ParseObject(call.doc.entries[i].members).id)
  /\ (call.op = "import" /\ call.ret # -1) =>
       \A i \in RecordsById :
         LET given == ParseObject(call.doc.entries[i].members)
             stored == db[given.id]
         IN /\ given.id \in DOMAIN db
            /\ [stored EXCEPT !.created_at = Null]
                 = [Normalize(given, nextId, now) EXCEPT !.created_at = Null]
            /\ IF Truthy(given.created_at)
               THEN stored.created_at = given.created_at
               ELSE StampedByCall(stored.created_at)

C11_Witness ==
  /\ call.op = "import"
  /\ call.ret = 3
  /\ call.doc = PayloadDuplicate
  /\ Str(<< "a" >>) \in DOMAIN call.pre
  /\ call.pre[Str(<< "a" >>)].item = Str(<< "7" >>)
  /\ call.pre[Str(<< "a" >>)].location = Str(<< "t", "r", "u", "e" >>)
  /\ db[Str(<< "a" >>)].item = Str(<< "r" >>)
  /\ db[Str(<< "a" >>)].location = Str(<< >>)
  /\ db[Str(<< "a" >>)].notes = Str(<< >>)
  /\ db[Str(<< "a" >>)].created_at = Num(5)

\* C12: an import of a text that is not well-formed JSON fails with the
\* parse error, and an import of a text without an entries array fails
\* with the schema error; either ends the import in the step that began it,
\* before any put: the store is as it was and no transaction was issued.
C12_ImportRejects ==
  [][(call'.op = "import" /\ ops' = ops + 1) =>
       /\ ~call'.doc.wellFormed =>
            /\ call'.status = "Import failed: Invalid JSON."
            /\ pcImport' = "idle"
            /\ db' = db
            /\ writes' = writes
       /\ (call'.doc.wellFormed /\ ~call'.doc.hasEntries) =>
            /\ call'.status
                 = "Import failed: JSON must include { entries: [...] }."
            /\ pcImport' = "idle"
            /\ db' = db
            /\ writes' = writes]_vars

C12_Witness ==
  /\ prev.op = "import"
  /\ prev.status = "Import failed: Invalid JSON."
  /\ call.op = "import"
  /\ call.doc = NoEntries
  /\ call.status = "Import failed: JSON must include { entries: [...] }."
  /\ DOMAIN db # {}
  /\ db = call.pre
  /\ Idle

\* C14: an update of an id that is not in the store ends with the message
\* that the entry could not be loaded, and an update whose trimmed item is
\* empty ends with the message that the item is required; either ends
\* saveEdit in the step that began it: nothing is put, the store is as it
\* was and no entry of that id is created.
C14_UpdateRejects ==
  [][(call'.op = "update" /\ ops' = ops + 1) =>
       /\ Trim(call'.form.item) = << >> =>
            /\ call'.status = "Item required"
            /\ pcSave' = "idle"
            /\ db' = db
            /\ writes' = writes
       /\ (Trim(call'.form.item) # << >> /\ call'.id \notin DOMAIN db) =>
            /\ call'.status = "Could not load entry for update."
            /\ pcSave' = "idle"
            /\ db' = db
            /\ call'.id \notin DOMAIN db'
            /\ writes' = writes]_vars

C14_Witness ==
  /\ prev.op = "update"
  /\ prev.status = "Item required"
  /\ call.op = "update"
  /\ call.status = "Could not load entry for update."
  /\ call.id = Str(<< "7" >>)
  /\ call.id \notin DOMAIN db
  /\ Num(7) \in DOMAIN db
  /\ db = call.pre
  /\ Idle

\* The entries as renderSearch() reads and sorts them, and the ids of a
\* sequence of entries.
Snapshot == SortNewestFirst(getAllEntries(db))

IdsOf(entries) == [i \in 1..Len(entries) |-> entries[i].id]

\* q is a substring of text.
Contains(text, q) ==
  \E i \in 0..(Len(text) - Len(q)) : SubSeq(text, i + 1, i + Len(q)) = q

\* The text of a field, an absent or otherwise falsy one being empty.
FieldText(v) == IF Truthy(v) THEN ToText(v) ELSE << >>

\* item, location and notes, a space between one and the next.
Joined(e) ==
  FieldText(e.item) \o << " " >> \o FieldText(e.location) \o << " " >>
    \o FieldText(e.notes)

\* The ids of the entries of the snapshot, in its order, whose lowercased
\* item, location and notes contain q.
Selected(q) ==
  IdsOf(SelectSeq(Snapshot, LAMBDA e : Contains(ToLower(Joined(e)), q)))

\* C15 as stated: a search lists all entries when the query is empty, and
\* otherwise exactly the entries whose lowercased item, location and notes
\* contain the lowercased query.
C15_Original ==
  (call.op = "search" /\ call.status = "") =>
    searchList = IF qValue = << >> THEN IdsOf(Snapshot)
                 ELSE Selected(ToLower(qValue))

\* C15: a search lists, in the order of the snapshot, all entries when the
\* query without the white space around it is empty, and otherwise exactly
\* the entries for which that query, lowercased, is a substring of the
\* lowercased item, location and notes joined by single spaces; an entry
\* that holds the query only in inventory or date is not listed.
C15_Search ==
  (call.op = "search" /\ call.status = "") =>
    /\ searchList = IF Trim(qValue) = << >> THEN IdsOf(Snapshot)
                    ELSE Selected(ToLower(Trim(qValue)))
    /\ \A e \in SampleEntries :
         ( /\ e.id \in DOMAIN db
           /\ Trim(qValue) # << >>
           /\ ~Contains(ToLower(Joined(e)), ToLower(Trim(qValue))) ) =>
           \A i \in 1..Len(searchList) : searchList[i] # e.id

\* The store holds the four entries and the query is 3: the entry with 3
\* in its notes is listed, the two with 3 in inventory or date are not.
C15_Witness ==
  /\ call.op = "search"
  /\ call.status = ""
  /\ db = StoreOf(SampleEntries)
  /\ qValue = << "3" >>
  /\ searchList = << Str(<< "s", "4" >>) >>

\* The created_at of the i-th entry of an exported file, as text.
ExportedAt(doc, i) ==
  ToText(ParseField(doc.entries[i].members, "created_at"))

\* C16: an export outputs every entry of the store once, in an order in
\* which no entry comes before one of a later created_at: entries of
\* distinct created_at are in strictly descending order.
C16_ExportSorted ==
  call.op = "export" =>
    /\ call.status = "Exported"
    /\ Len(call.doc.entries) = Cardinality(DOMAIN db)
    /\ \A id \in DOMAIN db :
         \E i \in 1..Len(call.doc.entries) :
           call.doc.entries[i] = JRecord(StringifyObject(db[id]))
    /\ \A i, j \in 1..Len(call.doc.entries) :
         i < j => CompareText(ExportedAt(call.doc, i),
                              ExportedAt(call.doc, j)) >= 0

\* Whether getAllEntries returns entry e.
InGetAll(e) ==
  \E i \in 1..Len(getAllEntries(db)) : getAllEntries(db)[i] = e

\* C17: with one handler run after the other, a read issued once a write
\* has resolved observes the write: after a create, getEntry of the new id
\* and getAllEntries return the entry added; after an update they return
\* the entry put, with the fields of the form and the time of the update;
\* after a delete getEntry finds nothing and getAllEntries holds no entry of
\* that id; after an import they return an entry at each id of the payload.
C17_ReadYourWrites ==
  /\ (call.op = "create" /\ call.status = "Yeeted.") =>
       /\ call.id \notin DOMAIN call.pre
       /\ getEntry(db, call.id).found
       /\ getEntry(db, call.id).entry.id = call.id
       /\ getEntry(db, call.id).entry.item = Str(Trim(call.form.item))
       /\ InGetAll(getEntry(db, call.id).entry)
       /\ Len(getAllEntries(db)) = Cardinality(DOMAIN call.pre) + 1
  /\ (call.op = "update" /\ call.status = "Updated") =>
       /\ getEntry(db, call.id).found
       /\ getEntry(db, call.id).entry.id = call.id
       /\ getEntry(db, call.id).entry.item = Str(Trim(call.form.item))
       /\ getEntry(db, call.id).entry.notes = Str(Trim(call.form.notes))
       /\ StampedByCall(getEntry(db, call.id).entry.updated_at)
       /\ InGetAll(getEntry(db, call.id).entry)
  /\ (call.op = "delete" /\ call.status = "Deleted") =>
       /\ ~getEntry(db, call.id).found
       /\ \A i \in 1..Len(getAllEntries(db)) :
            getAllEntries(db)[i].id # call.id
  /\ (call.op = "import" /\ call.status = "Imported") =>
       \A i \in RecordsById :
         LET id == ParseObject(call.doc.entries[i].members).id
         IN /\ getEntry(db, id).found
            /\ getEntry(db, id).entry.id = id
            /\ InGetAll(getEntry(db, id).entry)

C17_Witness ==
  /\ prev.op = "update"
  /\ prev.status = "Updated"
  /\ call.op = "delete"
  /\ call.status = "Deleted"
  /\ call.id = prev.id
  /\ call.id \in DOMAIN call.pre
  /\ IsTimestamp(call.pre[call.id].updated_at)
  /\ ~getEntry(db, call.id).found
  /\ Idle

\* C18: at most one connection is ever opened, however many operations are
\* issued.
C18_OneConnection == connections <= 1

\* A record that carries an id and a created_at the import takes as given:
\* neither is absent, null, the empty text or another falsy value.
Identified(el) ==
  /\ Truthy(ParseObject(el.members).id)
  /\ Truthy(ParseObject(el.members).created_at)

FullyIdentified(doc) ==
  /\ doc.wellFormed
  /\ doc.hasEntries
  /\ \A i \in 1..Len(doc.entries) :
       doc.entries[i].rec => Identified(doc.entries[i])

\* C20: an import of a payload in which every record carries an id and a
\* created_at leaves every entry whose id is not in the payload as it was;
\* run again right after an import of the same payload, it leaves the
\* whole store as that first import left it.
C20_ReimportIdempotent ==
  (call.op = "import" /\ Idle /\ FullyIdentified(call.doc)) =>
    /\ \A id \in DOMAIN call.pre :
         (\A i \in 1..Len(call.doc.entries) :
            call.doc.entries[i].rec =>
              ParseObject(call.doc.entries[i].members).id # id)
           => (id \in DOMAIN db /\ db[id] = call.pre[id])
    /\ call.again => db = call.pre

C20_Witness ==
  /\ prev.op = "import"
  /\ call.op = "import"
  /\ call.again
  /\ call.ret = 3
  /\ call.doc = PayloadDuplicate
  /\ call.at > 0
  /\ \E id \in DOMAIN db : id # Str(<< "a" >>) /\ id # Str(<< "e" >>)
  /\ db[Str(<< "a" >>)].item = Str(<< "r" >>)
  /\ db = call.pre

\* C13: a delete never fails, be it the second of the same id in a row or
\* one of an id that is not stored: it ends with 'Deleted', the id is not
\* in the store afterwards and every other entry is as it was.
C13_DeleteIdempotent ==
  call.op = "delete" =>
    /\ call.status = "Deleted"
    /\ call.id \notin DOMAIN db
    /\ DOMAIN db = DOMAIN call.pre \ {call.id}
    /\ \A id \in DOMAIN db : db[id] = call.pre[id]

C13_Witness ==
  /\ prev.op = "delete"
  /\ prev.status = "Deleted"
  /\ call.op = "delete"
  /\ call.status = "Deleted"
  /\ call.id = prev.id
  /\ call.id \in deleted
  /\ call.id \notin DOMAIN call.pre
  /\ db = call.pre

\* C19: an id that a delete has removed stays out of the store until a
\* create or an import writes it: a saveEdit that read the entry before the
\* delete does not put it back.
C19_DeleteSticks == \A id \in deleted : id \notin DOMAIN db

====
